---- MODULE Spec2Model ----
(***************************************************************************)
(* Approval-state coordination of the Fathom -> Slack -> Linear pipeline.  *)
(* The model follows SlackReviewer (requestReview and the per-item         *)
(* approve_issue / reject_issue action handlers), the Vercel KV helpers    *)
(* it uses and LinearIssueCreator.createIssue as the handlers see it.      *)
(* Every await of the source is one step of the invocation that performs   *)
(* it; the synchronous code up to the next await belongs to the step.      *)
(***************************************************************************)
EXTENDS Integers, Sequences, FiniteSets, TLC

\* ---------------------------------------------------------------- bounds
MaxReviews  == 1      \* review requests posted by the webhook pipeline
NumIssues   == 2      \* action items (= Linear issue inputs) per review
MaxHandlers == 2      \* action-handler invocations (button clicks)
MaxTicks    == 2      \* clock advances
TickSec     == 1000   \* seconds per clock advance
MaxBatch    == 2      \* issue inputs handed to one createIssues call
MaxListLen  == 2      \* length of the index lists handed to createReviewBlocks
MaxSecretParts == 2   \* dot-separated parts of the configured webhook secret
MaxSigs     == 2      \* signatures in the block of a signature header

\* ------------------------------------------------------- program constants
reviewTimeout == 30 * 60 * 1000          \* ms
linearCreator == TRUE                    \* server.ts calls setLinearCreator
\* messageTs && channelId of an action body: Slack sends both with every
\* click on a button of a message
hasMessageRef == TRUE

Reviews  == 1..MaxReviews
\* the issue inputs of a createIssues call, named by their position
Payloads == 1..MaxBatch
Handlers == 1..MaxHandlers
\* indices a button value can carry: the valid ones and one past the end
IndexInputs == 0..NumIssues

\* retry options of LinearIssueCreator.createIssue
maxAttempts == 3
initialDelayMs == 1000
maxDelayMs == 5000
\* DEFAULT_OPTIONS.backoffMultiplier, which createIssue does not override
backoffMultiplier == 2

NoData == [none |-> TRUE]
NoError == [class |-> "none", code |-> "", status |-> 0, message |-> {}]
NoResponse == [status |-> 0, body |-> "none"]
NoEntry == [absent |-> TRUE]
EmptyHeader == [version |-> "", hasBlock |-> FALSE, block |-> <<>>]
NoCall == [secret |-> <<>>, signature |-> EmptyHeader, rawBody |-> ""]
NoRequest == [signature |-> "none", recording |-> FALSE, transcript |-> FALSE]

\* ------------------------------------------------------------ pure helpers
\* includes() handed the unparsed index string: equal to no stored number
IncludesMismatch(arr, x) == FALSE

\* Array.prototype.includes
Includes(arr, x) == \E k \in 1..Len(arr) : arr[k] = x

\* Math.min
Min(a, b) == IF a <= b THEN a ELSE b

\* inputs.slice(0, 1)
Slice01(ins) == SubSeq(ins, 1, Min(1, Len(ins)))

\* a push that adds the element twice
PushTwice(arr, x) == Append(Append(arr, x), x)

\* Array.prototype.push
Push(arr, x) == Append(arr, x)

\* arr[index] is truthy: index is inside the array (0-based)
Truthy(arr, index) == index >= 0 /\ index < Len(arr)

\* the Linear issue inputs the pipeline hands to requestReview for review r
IssueInputs(r) == [k \in 1..NumIssues |-> <<r, k - 1>>]

AllPayloads == { <<r, i>> : r \in Reviews, i \in 0..(NumIssues - 1) }

\* the timeout handed to kv.set as it is, in milliseconds
ExMilliseconds == reviewTimeout

\* TTL handed to kv.set, in seconds
ExSeconds == reviewTimeout \div 1000

\* buttons kept on a rejected item
ShowButtonsUnlessApproved(isApproved, isRejected) == ~isApproved

\* createReviewBlocks: "add action buttons only if not already
\* approved/rejected"
ShowButtons(isApproved, isRejected) == ~isApproved /\ ~isRejected

RECURSIVE IssueBlocksFrom(_, _, _, _, _)
\* linearIssues.forEach of createReviewBlocks, from position k (1-based) on:
\* a section for the issue and, while it is pending, an actions block with
\* the two buttons, whose value is `${reviewId}:${index}`
IssueBlocksFrom(k, linearIssues, reviewId, approvedIssues, rejectedIssues) ==
  IF k > Len(linearIssues) THEN <<>>
  ELSE
    LET index == k - 1
        isApproved == Includes(approvedIssues, index)
        isRejected == Includes(rejectedIssues, index)
        section == [type   |-> "section",
                    number |-> index + 1,
                    issue  |-> linearIssues[k],
                    status |-> IF isApproved THEN "Approved"
                               ELSE IF isRejected THEN "Rejected" ELSE ""]
        actions == [type     |-> "actions",
                    elements |-> << [action_id |-> "approve_issue",
                                     value     |-> <<reviewId, index>>],
                                    [action_id |-> "reject_issue",
                                     value     |-> <<reviewId, index>>] >>]
    IN (IF ShowButtons(isApproved, isRejected)
        THEN <<section, actions>> ELSE <<section>>)
       \o IssueBlocksFrom(k + 1, linearIssues, reviewId, approvedIssues,
                          rejectedIssues)

createReviewBlocks(actionItems, linearIssues, reviewId, approvedIssues, rejectedIssues) ==
  << [type |-> "section", found |-> actionItems], [type |-> "divider"] >>
  \o IssueBlocksFrom(1, linearIssues, reviewId, approvedIssues,
                     rejectedIssues)

\* reviewData built before the post result is known: no message reference
NewReviewDataNoRef(r, t) ==
  [actionItems    |-> NumIssues,
   linearIssues   |-> IssueInputs(r),
   timestamp      |-> t,
   messageTs      |-> 0,
   channelId      |-> "channel",
   approvedIssues |-> <<>>,
   rejectedIssues |-> <<>>]

\* ReviewRequestData as requestReview builds it
NewReviewData(r, t) ==
  [actionItems    |-> NumIssues,
   linearIssues   |-> IssueInputs(r),
   timestamp      |-> t,
   messageTs      |-> r,
   channelId      |-> "channel",
   approvedIssues |-> <<>>,
   rejectedIssues |-> <<>>]

\* ------------------------------------------------------------------- state
VARIABLES
  useKV,        \* constructor argument of SlackReviewer
  now,          \* wall clock, seconds
  kvStore,      \* Vercel KV: reviewId -> [data, expiresAt] or NoEntry
  slackMessage, \* the review message of each review as Slack shows it
  createCalls,  \* createIssue invocations per issue input
  rpc,          \* requestReview invocation of review r: position
  rdata,        \* requestReview invocation: its reviewData
  rev,          \* requestReview invocation: what has happened in it
  origExpiry,   \* expiry that requestReview's kv.set gave the record (0: none)
  res,          \* POST /fathom of review r: the HTTP response it sent
  pc,           \* action handler invocation h: position
  action,       \* handler: action_id (approve_issue / reject_issue)
  rid,          \* handler: reviewId parsed from the button value
  idx,          \* handler: index parsed from the button value
  reviewData,   \* handler: its local reviewData
  outcome,      \* handler: text the user received, or how it ended
  ev,           \* handler: what has happened in this invocation
  doneBefore,   \* handler: invocations that had ended when it started
  calls,        \* handler: the external calls it has made, in order
  issueIds,     \* handler: length of the createIssues result (-1: none yet)
  entry,        \* LinearIssueCreator: the method the caller invokes
  inputs,       \* createIssues: its argument
  bpc,          \* createIssues: position
  bk,           \* createIssues: index of the loop in issuesToCreate (1-based)
  createdIds,   \* createIssues: its local issueIds
  errors,       \* createIssues: its local errors
  returned,     \* createIssues: the value the caller received
  lpc,          \* createIssue: position
  cur,          \* createIssue: its input
  attempt,      \* retry: attempt
  delay,        \* retry: delay
  lastError,    \* retry: lastError
  backendCalls, \* per input: client.createIssue invocations
  sleeps,       \* per input: the delays retry slept, in order
  errs,         \* per input: the errors client.createIssue threw, in order
  status,       \* per input: how its createIssue call ended
  thrownErr,    \* per input: the error its createIssue call threw
  slackConfigured, \* createWebhookRouter: services.slackReviewer is given
  wpc,          \* POST /fathom: position of the handler
  wreq,         \* POST /fathom: the request
  wres,         \* POST /fathom: the response sent
  wcalls,       \* POST /fathom: the service calls it has made, in order
  glog,         \* githubLogger.logTranscript promise
  recap,        \* generateRecap / postRecapMessage promise chain
  witems,       \* POST /fathom: actionItems.length (-1: not extracted)
  vin,          \* verifyWebhookSignature: its arguments
  vout          \* verifyWebhookSignature: "true", "false" ("none": not called)

rvars == <<rpc, rdata, rev, origExpiry, res>>
hvars == <<pc, action, rid, idx, reviewData, outcome, ev, doneBefore, calls,
           issueIds>>

\* LinearIssueCreator and retry
lvars == <<entry, inputs, bpc, bk, createdIds, errors, returned, lpc, cur,
           attempt, delay, lastError, backendCalls, sleeps, errs, status,
           thrownErr>>

\* the webhook route
wvars == <<slackConfigured, wpc, wreq, wres, wcalls, glog, recap, witems>>

\* a call of verifyWebhookSignature
xvars == <<vin, vout>>

\* what no step of requestReview or of an action handler touches
ovars == <<lvars, wvars, xvars>>

\* SlackReviewer, the store and the Slack message
svars == <<useKV, now, kvStore, slackMessage, createCalls, rvars, hvars>>

\* what no step of LinearIssueCreator touches
reviewVars == <<svars, wvars, xvars>>

vars == <<svars, lvars, wvars, xvars>>

\* LinearIssueCreator before any call
InitLinearIdle ==
  /\ bpc = "idle"
  /\ bk = 0
  /\ createdIds = <<>>
  /\ errors = <<>>
  /\ returned = <<>>
  /\ lpc = "idle"
  /\ cur = 0
  /\ attempt = 0
  /\ delay = 0
  /\ lastError = NoError
  /\ backendCalls = [p \in Payloads |-> 0]
  /\ sleeps = [p \in Payloads |-> <<>>]
  /\ errs = [p \in Payloads |-> <<>>]
  /\ status = [p \in Payloads |-> "none"]
  /\ thrownErr = [p \in Payloads |-> NoError]

\* no webhook request and no button click has arrived
InitIdle ==
  /\ now = 0
  /\ createCalls = [p \in AllPayloads |-> 0]
  /\ rpc = [r \in Reviews |-> "idle"]
  /\ rdata = [r \in Reviews |-> NoData]
  /\ rev = [r \in Reviews |-> {}]
  /\ origExpiry = [r \in Reviews |-> 0]
  /\ pc = [h \in Handlers |-> "idle"]
  /\ action = [h \in Handlers |-> "none"]
  /\ rid = [h \in Handlers |-> 0]
  /\ idx = [h \in Handlers |-> 0]
  /\ reviewData = [h \in Handlers |-> NoData]
  /\ outcome = [h \in Handlers |-> "none"]
  /\ ev = [h \in Handlers |-> {}]
  /\ doneBefore = [h \in Handlers |-> {}]
  /\ calls = [h \in Handlers |-> <<>>]
  /\ issueIds = [h \in Handlers |-> -1]
  /\ res = [r \in Reviews |-> NoResponse]
  /\ wpc = "idle"
  /\ wreq = NoRequest
  /\ wres = NoResponse
  /\ wcalls = <<>>
  /\ glog = "none"
  /\ recap = "none"
  /\ witems = -1

\* verifyWebhookSignature has not been called
InitNoCall ==
  /\ vin = NoCall
  /\ vout = "none"

\* SlackReviewer after construction, no review requested
InitReview ==
  /\ kvStore = [r \in Reviews |-> NoEntry]
  /\ slackMessage = [r \in Reviews |-> <<>>]
  /\ InitIdle
  /\ InitNoCall

Init ==
  /\ useKV \in BOOLEAN
  /\ slackConfigured = TRUE
  /\ InitReview
  /\ entry = "none"
  /\ inputs = <<>>
  /\ InitLinearIdle

\* --------------------------------------------------------------- KV store
\* a write that stamps the record anew
KVSetStamped(r, data) ==
  [kvStore EXCEPT ![r] = [data |-> [data EXCEPT !.timestamp = now],
                          expiresAt |-> now + ExSeconds]]

\* kv.set(key, data, {ex})
KVSet(r, data) ==
  [kvStore EXCEPT ![r] = [data |-> data, expiresAt |-> now + ExSeconds]]

\* kv.get(key): the data, or null
KVGet(r) == IF kvStore[r] = NoEntry THEN NoData ELSE kvStore[r].data

\* getReviewKV falling back to the data the process still holds in memory
getReviewKVInMemory(r) ==
  IF ~useKV THEN {NoData}
  ELSE {IF kvStore[r] = NoEntry THEN rdata[r] ELSE KVGet(r), NoData}

\* getReviewKV that without KV hands out the data requestReview built
getReviewKVMemoryFallback(r) ==
  IF ~useKV THEN {rdata[r]} ELSE {KVGet(r), NoData}

\* getReviewKV(reviewId): what it can return. Null without KV; with KV the
\* stored data, or null when the key is missing or kv.get throws.
getReviewKV(r) == IF ~useKV THEN {NoData} ELSE {KVGet(r), NoData}

\* the clock advances; KV evicts the keys whose expiry has been reached
Tick ==
  /\ now < MaxTicks * TickSec
  /\ now' = now + TickSec
  /\ kvStore' = [r \in Reviews |->
                   IF kvStore[r] # NoEntry /\ kvStore[r].expiresAt <= now'
                   THEN NoEntry ELSE kvStore[r]]
  /\ UNCHANGED <<useKV, slackMessage, createCalls, rvars, hvars, ovars>>

\* ------------------------------------------------------------ POST /fathom
\* a failed requestReview answered like a posted one
WebhookResponseSwallowing(thrown) ==
  [status |-> 200, body |-> "Processing started - recap posting, review pending in Slack"]

\* the response of the Slack branch of the webhook handler: requestReview is
\* awaited; when it throws the handler answers 500, else 200
WebhookResponse(thrown) ==
  IF thrown
  THEN [status |-> 500, body |-> "Failed to post review to Slack"]
  ELSE [status |-> 200, body |-> "Processing started - recap posting, review pending in Slack"]

\* ---------------------------------------------------------- requestReview
\* chat.postMessage of the review message. On success the invocation builds
\* its reviewData and, in KV mode, goes on to storeReviewKV; a failure is
\* rethrown to the caller. The webhook handler awaits requestReview and
\* answers as soon as it returns or throws.
RequestReviewPost(r) ==
  /\ rpc[r] = "idle"
  /\ IF r = 1 THEN TRUE ELSE rpc[r - 1] # "idle"
  /\ \/ /\ slackMessage' = [slackMessage EXCEPT ![r] =
              createReviewBlocks(NumIssues, IssueInputs(r), r, <<>>, <<>>)]
        /\ rdata' = [rdata EXCEPT ![r] = NewReviewData(r, now)]
        /\ rev' = [rev EXCEPT ![r] = @ \cup {"posted"}]
        /\ rpc' = [rpc EXCEPT ![r] = IF useKV THEN "store" ELSE "returned"]
        /\ res' = IF useKV THEN res
                  ELSE [res EXCEPT ![r] = WebhookResponse(FALSE)]
     \/ /\ rpc' = [rpc EXCEPT ![r] = "thrown"]
        /\ rev' = [rev EXCEPT ![r] = @ \cup {"postFailed"}]
        /\ res' = [res EXCEPT ![r] = WebhookResponse(TRUE)]
        /\ UNCHANGED <<slackMessage, rdata>>
  /\ UNCHANGED <<useKV, now, kvStore, createCalls, origExpiry, hvars, ovars>>

\* storeReviewKV inside requestReview: a failure is logged and swallowed,
\* the reviewId is returned all the same.
RequestReviewStore(r) ==
  /\ rpc[r] = "store"
  /\ \/ /\ kvStore' = KVSet(r, rdata[r])
        /\ origExpiry' = [origExpiry EXCEPT ![r] = now + ExSeconds]
        /\ rev' = [rev EXCEPT ![r] = @ \cup {"stored"}]
        /\ rpc' = [rpc EXCEPT ![r] = "verify"]
        /\ UNCHANGED res
     \/ /\ rev' = [rev EXCEPT ![r] = @ \cup {"storeFailed"}]
        /\ rpc' = [rpc EXCEPT ![r] = "returned"]
        /\ res' = [res EXCEPT ![r] = WebhookResponse(FALSE)]
        /\ UNCHANGED <<kvStore, origExpiry>>
  /\ UNCHANGED <<useKV, now, slackMessage, createCalls, rdata, hvars, ovars>>

\* the verifying getReviewKV: its result is only logged
RequestReviewVerify(r) ==
  /\ rpc[r] = "verify"
  /\ rev' = [rev EXCEPT ![r] = @ \cup
               {IF KVGet(r) = NoData THEN "verifyMissing" ELSE "verified"}]
  /\ rpc' = [rpc EXCEPT ![r] = "returned"]
  /\ res' = [res EXCEPT ![r] = WebhookResponse(FALSE)]
  /\ UNCHANGED <<useKV, now, kvStore, slackMessage, createCalls, rdata,
                 origExpiry, hvars, ovars>>

\* -------------------------------------------- approve_issue / reject_issue
\* the respond() that follows when a respond() with text n throws: the one
\* of the enclosing catch block, or none (the exception leaves the handler)
NextNotice(a, n) ==
  IF n \in {"Error", "uncaught"} THEN "uncaught"
  ELSE IF a = "approve_issue" /\ n = "Success" THEN "CreateFailed"
  ELSE "Error"

\* the text of the catch block an exception thrown after the checks lands
\* in: approve_issue has its own try around the create path
CatchNotice(a) == IF a = "approve_issue" THEN "CreateFailed" ELSE "Error"

\* what the user can end up with when the handler calls respond({text: n})
RespondOutcomes(a, n) ==
  LET n1 == NextNotice(a, n)
      n2 == NextNotice(a, n1)
      n3 == NextNotice(a, n2)
  IN {n, n1, n2, n3}

\* respond({text: n}) ends the invocation: the text is delivered, or the
\* call throws and the enclosing catch responds in turn. respond() posts to
\* the response_url of the click and touches nothing another invocation
\* sees, so it is part of the step that issues it.
Respond(h, n, tags) ==
  /\ \E o \in RespondOutcomes(action[h], n) :
       /\ outcome' = [outcome EXCEPT ![h] = o]
       /\ ev' = [ev EXCEPT ![h] =
                   @ \cup tags \cup (IF o = n THEN {} ELSE {"respondFailed"})]
  /\ pc' = [pc EXCEPT ![h] = "done"]
  /\ reviewData' = [reviewData EXCEPT ![h] = NoData]

\* a handler that starts without acknowledging the click
AckCallsMissing == <<>>

\* the calls an invocation has made once its first statement has run
AckCalls == <<"ack">>

\* the calls a step of a per-item invocation adds to its record: those
\* given, and the respond() that ends the invocation
Called(h, cs) ==
  calls' = [calls EXCEPT ![h] =
              @ \o cs \o (IF pc'[h] = "done" THEN <<"respond">> ELSE <<>>)]

\* A button click is delivered: ack() is awaited, the value is parsed.
Ack(h) ==
  /\ pc[h] = "idle"
  /\ IF h = 1 THEN TRUE ELSE pc[h - 1] # "idle"
  /\ \E a \in {"approve_issue", "reject_issue"}, r \in Reviews,
        i \in IndexInputs :
       /\ "posted" \in rev[r]
       /\ action' = [action EXCEPT ![h] = a]
       /\ rid' = [rid EXCEPT ![h] = r]
       /\ idx' = [idx EXCEPT ![h] = i]
  /\ pc' = [pc EXCEPT ![h] = "acked"]
  /\ doneBefore' = [doneBefore EXCEPT ![h] = {g \in Handlers : pc[g] = "done"}]
  /\ calls' = [calls EXCEPT ![h] = AckCalls]
  /\ UNCHANGED <<useKV, now, kvStore, slackMessage, createCalls, rvars,
                 reviewData, outcome, ev, issueIds, ovars>>

\* what follows the state update of either handler up to its next await
AfterPush(h) ==
  IF useKV THEN pc' = [pc EXCEPT ![h] = "set"]
  ELSE IF hasMessageRef THEN pc' = [pc EXCEPT ![h] = "update"]
  ELSE FALSE

\* the whole batch handed over, as the bulk approve_issues flow does
IssuesToCreateBulk(data, index) ==
  {data.linearIssues[k] : k \in 1..Len(data.linearIssues)}

\* the issue inputs approve_issue hands to the Linear client for an index
IssuesToCreate(data, index) == {data.linearIssues[index + 1]}

\* approve_issue that creates an issue for a payload once only
ApproveAfterChecksOnce(h, data) ==
  IF /\ linearCreator /\ Truthy(data.linearIssues, idx[h])
     /\ \A p \in IssuesToCreate(data, idx[h]) : createCalls[p] = 0
  THEN /\ createCalls' = [p \in AllPayloads |->
                            IF p \in IssuesToCreate(data, idx[h])
                            THEN createCalls[p] + 1 ELSE createCalls[p]]
       /\ pc' = [pc EXCEPT ![h] = "create"]
       /\ reviewData' = [reviewData EXCEPT ![h] = data]
       /\ ev' = [ev EXCEPT ![h] = @ \cup {"found", "createCalled"}]
       /\ UNCHANGED outcome
  ELSE /\ Respond(h, "IssueNotFound", {"found"})
       /\ UNCHANGED createCalls

\* approve_issue after its guards: createIssue is called for the one issue
ApproveAfterChecks(h, data) ==
  IF linearCreator /\ Truthy(data.linearIssues, idx[h])
  THEN /\ createCalls' = [p \in AllPayloads |->
                            IF p \in IssuesToCreate(data, idx[h])
                            THEN createCalls[p] + 1 ELSE createCalls[p]]
       /\ pc' = [pc EXCEPT ![h] = "create"]
       /\ reviewData' = [reviewData EXCEPT ![h] = data]
       /\ ev' = [ev EXCEPT ![h] = @ \cup {"found", "createCalled"}]
       /\ UNCHANGED outcome
  ELSE /\ Respond(h, "IssueNotFound", {"found"})
       /\ UNCHANGED createCalls

\* reject_issue written as a copy of approve_issue that still creates
RejectAfterChecksCreating(h, data) == ApproveAfterChecks(h, data)

\* reject_issue after its guards: push the index, then storeReviewKV
RejectAfterChecks(h, data) ==
  /\ reviewData' = [reviewData EXCEPT ![h] =
        [data EXCEPT !.rejectedIssues = Push(@, idx[h])]]
  /\ ev' = [ev EXCEPT ![h] = @ \cup {"found"}]
  /\ AfterPush(h)
  /\ UNCHANGED <<createCalls, outcome>>

\* the code between the lookup and the next await, for a lookup result data
AfterLookup(h, data) ==
  IF data = NoData
  THEN /\ Respond(h, "NotFound", {})
       /\ UNCHANGED createCalls
  ELSE IF Includes(data.approvedIssues, idx[h])
          \/ Includes(data.rejectedIssues, idx[h])
  THEN /\ Respond(h, "Already", {"found"})
       /\ UNCHANGED createCalls
  ELSE IF action[h] = "approve_issue"
  THEN ApproveAfterChecks(h, data)
  ELSE RejectAfterChecks(h, data)

\* getReviewKV and the guards that follow it
Lookup(h) ==
  /\ pc[h] = "acked"
  /\ \E data \in getReviewKV(rid[h]) : AfterLookup(h, data)
  /\ Called(h, (IF useKV THEN <<"kv.get">> ELSE <<>>)
                 \o (IF pc'[h] = "create" THEN <<"createIssue">> ELSE <<>>))
  /\ UNCHANGED <<useKV, now, kvStore, slackMessage, rvars,
                 action, rid, idx, doneBefore, issueIds, ovars>>

\* a createIssue failure that is swallowed: the item is marked all the same
CreateDoneSwallowing(h) ==
  /\ pc[h] = "create"
  /\ \E t \in {"created", "createFailed"} :
       ev' = [ev EXCEPT ![h] = @ \cup {t}]
  /\ reviewData' = [reviewData EXCEPT ![h] =
        [@ EXCEPT !.approvedIssues = Push(@, idx[h])]]
  /\ AfterPush(h)
  /\ Called(h, <<>>)
  /\ UNCHANGED <<useKV, now, kvStore, slackMessage, createCalls, rvars,
                 action, rid, idx, outcome, doneBefore, issueIds, ovars>>

\* linearCreator.createIssue returns an issue id or throws (its retries
\* exhausted, or an error that is not retried)
CreateDone(h) ==
  /\ pc[h] = "create"
  /\ \/ /\ reviewData' = [reviewData EXCEPT ![h] =
              [@ EXCEPT !.approvedIssues = Push(@, idx[h])]]
        /\ ev' = [ev EXCEPT ![h] = @ \cup {"created"}]
        /\ AfterPush(h)
        /\ UNCHANGED outcome
     \/ Respond(h, "CreateFailed", {"createFailed"})
  /\ Called(h, <<>>)
  /\ UNCHANGED <<useKV, now, kvStore, slackMessage, createCalls, rvars,
                 action, rid, idx, doneBefore, issueIds, ovars>>

\* storeReviewKV(reviewId, reviewData) of a handler: the whole record is
\* written with a fresh expiry; a failure is rethrown
SetDone(h) ==
  /\ pc[h] = "set"
  /\ \/ /\ kvStore' = KVSet(rid[h], reviewData[h])
        /\ ev' = [ev EXCEPT ![h] = @ \cup {"stored"}]
        /\ IF hasMessageRef
           THEN /\ pc' = [pc EXCEPT ![h] = "update"]
                /\ UNCHANGED <<reviewData, outcome>>
           ELSE FALSE
     \/ /\ Respond(h, CatchNotice(action[h]), {"storeFailed"})
        /\ UNCHANGED kvStore
  /\ Called(h, <<"kv.set">>)
  /\ UNCHANGED <<useKV, now, slackMessage, createCalls, rvars,
                 action, rid, idx, doneBefore, issueIds, ovars>>

\* chat.update of the review message with the blocks rebuilt from the
\* handler's reviewData, then the closing respond()
UpdateDone(h) ==
  /\ pc[h] = "update"
  /\ \/ /\ slackMessage' = [slackMessage EXCEPT ![rid[h]] =
              createReviewBlocks(reviewData[h].actionItems,
                                 reviewData[h].linearIssues, rid[h],
                                 reviewData[h].approvedIssues,
                                 reviewData[h].rejectedIssues)]
        /\ Respond(h, "Success", {"updated"})
     \/ /\ Respond(h, CatchNotice(action[h]), {"updateFailed"})
        /\ UNCHANGED slackMessage
  /\ Called(h, <<"chat.update">>)
  /\ UNCHANGED <<useKV, now, kvStore, createCalls, rvars,
                 action, rid, idx, doneBefore, issueIds, ovars>>

\* ------------------------------------------ approve_issues / reject_issues
createProcessingBlocks(message) == <<[type |-> "section", text |-> message]>>

createApprovedBlocks(issueCount) ==
  <<[type |-> "section", text |-> "Approved", count |-> issueCount]>>

createErrorBlocks(errorMessage) ==
  <<[type |-> "section", text |-> "Error", message |-> errorMessage]>>

createRejectedBlocks == <<[type |-> "section", text |-> "Rejected"]>>

\* the invocation ends: outcome o, events tags, calls cs added
BulkEnd(h, o, tags, cs) ==
  /\ outcome' = [outcome EXCEPT ![h] = o]
  /\ ev' = [ev EXCEPT ![h] = @ \cup tags]
  /\ calls' = [calls EXCEPT ![h] = @ \o cs]
  /\ pc' = [pc EXCEPT ![h] = "done"]
  /\ reviewData' = [reviewData EXCEPT ![h] = NoData]

\* the invocation goes on at position p
BulkGoto(h, p, o, tags, cs) ==
  /\ outcome' = [outcome EXCEPT ![h] = o]
  /\ ev' = [ev EXCEPT ![h] = @ \cup tags]
  /\ calls' = [calls EXCEPT ![h] = @ \o cs]
  /\ pc' = [pc EXCEPT ![h] = p]

\* the respond() of the outermost catch: delivered, or it throws too
OuterCatch(h, tags, cs) ==
  \E o \in {"Error", "uncaught"} :
    BulkEnd(h, o, tags \cup {"respondFailed"}, cs \o <<"respond">>)

\* A click on an Approve all / Reject all button is delivered: ack() is
\* awaited, the reviewId is read from the value.
AckBulk(h) ==
  /\ pc[h] = "idle"
  /\ IF h = 1 THEN TRUE ELSE pc[h - 1] # "idle"
  /\ \E a \in {"approve_issues", "reject_issues"}, r \in Reviews :
       /\ "posted" \in rev[r]
       /\ action' = [action EXCEPT ![h] = a]
       /\ rid' = [rid EXCEPT ![h] = r]
  /\ pc' = [pc EXCEPT ![h] = "proc"]
  /\ doneBefore' = [doneBefore EXCEPT ![h] = {g \in Handlers : pc[g] = "done"}]
  /\ calls' = [calls EXCEPT ![h] = AckCalls]
  /\ UNCHANGED <<useKV, now, kvStore, slackMessage, createCalls, rvars,
                 idx, reviewData, outcome, ev, issueIds, ovars>>

\* where the handler goes after the processing update: the lookup in KV
\* mode; without KV the error update (approve_issues: in-memory storage not
\* available; reject_issues: reviewData stays null)
AfterProcessing(a) ==
  IF useKV THEN "bget"
  ELSE IF a = "approve_issues" THEN "bnokv" ELSE "bmiss"

\* chat.update to the processing state. A failure is caught; approve_issues
\* then sends the processing text with respond().
ProcessingUpdate(h) ==
  /\ pc[h] = "proc"
  /\ \/ /\ slackMessage' = [slackMessage EXCEPT ![rid[h]] =
              createProcessingBlocks(action[h])]
        /\ BulkGoto(h, AfterProcessing(action[h]), outcome[h],
                    {"processingShown"}, <<"chat.update">>)
     \/ /\ action[h] = "reject_issues"
        /\ BulkGoto(h, AfterProcessing(action[h]), outcome[h],
                    {"processingFailed"}, <<"chat.update">>)
        /\ UNCHANGED slackMessage
     \/ /\ action[h] = "approve_issues"
        /\ BulkGoto(h, AfterProcessing(action[h]), "Processing",
                    {"processingFailed"}, <<"chat.update", "respond">>)
        /\ UNCHANGED slackMessage
     \/ /\ action[h] = "approve_issues"
        /\ OuterCatch(h, {"processingFailed"}, <<"chat.update", "respond">>)
        /\ UNCHANGED slackMessage
  /\ IF pc'[h] = "done" THEN TRUE ELSE UNCHANGED reviewData
  /\ UNCHANGED <<useKV, now, kvStore, createCalls, rvars, action, rid, idx,
                 doneBefore, issueIds, ovars>>

\* getReviewKV of a bulk handler and the code up to its next await
BulkLookup(h) ==
  /\ pc[h] = "bget"
  /\ \E data \in getReviewKV(rid[h]) :
       IF data = NoData
       THEN /\ BulkGoto(h, "bmiss", outcome[h], {}, <<"kv.get">>)
            /\ UNCHANGED <<createCalls, reviewData>>
       ELSE IF action[h] = "reject_issues"
       THEN /\ BulkGoto(h, "bfinal", outcome[h], {"found"}, <<"kv.get">>)
            /\ reviewData' = [reviewData EXCEPT ![h] = data]
            /\ UNCHANGED createCalls
       ELSE IF linearCreator
       THEN /\ BulkGoto(h, "bcreate", outcome[h], {"found", "createCalled"},
                        <<"kv.get", "createIssues">>)
            /\ reviewData' = [reviewData EXCEPT ![h] = data]
            /\ createCalls' = [p \in AllPayloads |->
                 IF \E k \in 1..Len(Slice01(data.linearIssues)) :
                      Slice01(data.linearIssues)[k] = p
                 THEN createCalls[p] + 1 ELSE createCalls[p]]
       ELSE /\ \/ BulkEnd(h, "NotConfigured", {"found"},
                          <<"kv.get", "respond">>)
               \/ OuterCatch(h, {"found"}, <<"kv.get", "respond">>)
            /\ UNCHANGED createCalls
  /\ UNCHANGED <<useKV, now, kvStore, slackMessage, rvars, action, rid, idx,
                 doneBefore, issueIds, ovars>>

\* the error text of the update made when no review data is at hand
MissText(p) ==
  IF p = "bnokv" THEN "In-memory storage not available"
  ELSE "Review not found or expired"

\* chat.update to the error blocks, then return; when the update throws,
\* the outermost catch responds
ErrorUpdate(h) ==
  /\ pc[h] \in {"bmiss", "bnokv"}
  /\ \/ /\ slackMessage' = [slackMessage EXCEPT ![rid[h]] =
              createErrorBlocks(MissText(pc[h]))]
        /\ BulkEnd(h, outcome[h], {"errorShown"}, <<"chat.update">>)
     \/ /\ \E o \in {"Error", "uncaught"} :
             BulkEnd(h, o, {"updateFailed"}, <<"chat.update", "respond">>)
        /\ UNCHANGED slackMessage
  /\ UNCHANGED <<useKV, now, kvStore, createCalls, rvars, action, rid, idx,
                 doneBefore, issueIds, ovars>>

\* createIssues returns the ids of the issues it created: it creates at
\* most the first input and catches every createIssue failure
CreateIssuesDone(h) ==
  /\ pc[h] = "bcreate"
  /\ \E n \in 0..Len(Slice01(reviewData[h].linearIssues)) :
       issueIds' = [issueIds EXCEPT ![h] = n]
  /\ pc' = [pc EXCEPT ![h] = "bfinal"]
  /\ UNCHANGED <<useKV, now, kvStore, slackMessage, createCalls, rvars,
                 action, rid, idx, reviewData, outcome, ev, doneBefore,
                 calls, ovars>>

\* the blocks of the closing update of a bulk handler
FinalBlocks(h) ==
  IF action[h] = "reject_issues" THEN createRejectedBlocks
  ELSE IF issueIds[h] = 0
  THEN createErrorBlocks("Failed to create issues in Linear")
  ELSE createApprovedBlocks(issueIds[h])

FinalTag(h) ==
  IF action[h] = "approve_issues" /\ issueIds[h] = 0
  THEN "errorShown" ELSE "finalShown"

\* The closing chat.update (a failure is caught and logged) and the
\* respond() after it. approve_issues returns when no issue was created;
\* otherwise deleteReviewKV follows. A throwing respond() lands in the
\* catch of the create block (approve_issues) or in the outermost catch.
FinalUpdate(h) ==
  /\ pc[h] = "bfinal"
  /\ \E tags \in {{FinalTag(h)}, {"updateFailed"}} :
       /\ slackMessage' =
            IF "updateFailed" \in tags THEN slackMessage
            ELSE [slackMessage EXCEPT ![rid[h]] = FinalBlocks(h)]
       /\ \/ /\ action[h] = "approve_issues" /\ issueIds[h] = 0
             /\ BulkEnd(h, "CreateFailed", tags, <<"chat.update", "respond">>)
          \/ /\ action[h] = "approve_issues" /\ issueIds[h] > 0
             /\ BulkGoto(h, "bdelete", "Success", tags,
                         <<"chat.update", "respond">>)
             /\ UNCHANGED reviewData
          \/ /\ action[h] = "reject_issues"
             /\ BulkGoto(h, "bdelete", "Cancelled", tags,
                         <<"chat.update", "respond">>)
             /\ UNCHANGED reviewData
          \/ /\ action[h] = "approve_issues"
             /\ BulkGoto(h, "bcatch", outcome[h],
                         tags \cup {"respondFailed"},
                         <<"chat.update", "respond">>)
             /\ UNCHANGED reviewData
          \/ /\ action[h] = "reject_issues"
             /\ OuterCatch(h, tags, <<"chat.update", "respond">>)
  /\ UNCHANGED <<useKV, now, kvStore, createCalls, rvars, action, rid, idx,
                 doneBefore, issueIds, ovars>>

\* the catch of the create block of approve_issues: chat.update to the
\* error blocks (a failure is caught), then respond()
CatchUpdate(h) ==
  /\ pc[h] = "bcatch"
  /\ \E tags \in {{"errorShown"}, {"updateFailed"}} :
       /\ slackMessage' =
            IF "updateFailed" \in tags THEN slackMessage
            ELSE [slackMessage EXCEPT ![rid[h]] =
                    createErrorBlocks("Error creating issues in Linear")]
       /\ \E o \in {"CreateError", "Error", "uncaught"} :
            BulkEnd(h, o, tags, <<"chat.update", "respond">>)
  /\ UNCHANGED <<useKV, now, kvStore, createCalls, rvars, action, rid, idx,
                 doneBefore, issueIds, ovars>>

\* deleteReviewKV: kv.del removes the key; a failure is caught and logged
DeleteDone(h) ==
  /\ pc[h] = "bdelete"
  /\ \/ kvStore' = [kvStore EXCEPT ![rid[h]] = NoEntry]
     \/ UNCHANGED kvStore
  /\ BulkEnd(h, outcome[h], {"deleteCalled"}, <<"kv.del">>)
  /\ UNCHANGED <<useKV, now, slackMessage, createCalls, rvars, action, rid,
                 idx, doneBefore, issueIds, ovars>>

\* the four action handlers together, the clock standing still
NextHandlers ==
  \/ \E r \in Reviews : RequestReviewPost(r)
  \/ \E r \in Reviews : RequestReviewStore(r)
  \/ \E r \in Reviews : RequestReviewVerify(r)
  \/ \E h \in Handlers : Ack(h)
  \/ \E h \in Handlers : Lookup(h)
  \/ \E h \in Handlers : CreateDone(h)
  \/ \E h \in Handlers : SetDone(h)
  \/ \E h \in Handlers : UpdateDone(h)
  \/ \E h \in Handlers : AckBulk(h)
  \/ \E h \in Handlers : ProcessingUpdate(h)
  \/ \E h \in Handlers : BulkLookup(h)
  \/ \E h \in Handlers : ErrorUpdate(h)
  \/ \E h \in Handlers : CreateIssuesDone(h)
  \/ \E h \in Handlers : FinalUpdate(h)
  \/ \E h \in Handlers : CatchUpdate(h)
  \/ \E h \in Handlers : DeleteDone(h)

SpecHandlers == Init /\ [][NextHandlers]_vars

\* ------------------------------------------------- retry / createIssue(s)
\* the substrings the retryableErrors option of createIssue looks for
RetryableSubstrings ==
  {"Fetch failed", "ECONNRESET", "ETIMEDOUT", "socket disconnected", "timeout"}

\* The errors client.createIssue can throw. class is the kind of failure it
\* is; message is the set of the substrings above that its text contains.
BackendErrors ==
  { [class |-> "reset",   code |-> "ECONNRESET", status |-> 0,
     message |-> {"ECONNRESET"}],
    [class |-> "reset",   code |-> "ECONNRESET", status |-> 0,
     message |-> {}],
    [class |-> "timeout", code |-> "ETIMEDOUT",  status |-> 0,
     message |-> {"timeout"}],
    [class |-> "server",  code |-> "",           status |-> 503,
     message |-> {}],
    [class |-> "client",  code |-> "",           status |-> 400,
     message |-> {}] }

\* new Error('Failed to create issue: no issue returned')
NoIssueError ==
  [class |-> "noIssue", code |-> "", status |-> 0, message |-> {}]

\* new Error('Failed to create issue: issue has no id')
NoIdError ==
  [class |-> "noId", code |-> "", status |-> 0, message |-> {}]

\* a predicate that retries whatever the error is
retryableErrorsAlways(error) == TRUE

\* the retryableErrors option createIssue hands to retry
retryableErrors(error) ==
  \E sub \in RetryableSubstrings : sub \in error.message

\* the loop of retry ended one attempt early
LastAttemptEarly(a) == a >= maxAttempts - 1

\* !(attempt < opts.maxAttempts): no sleep, the loop ends
LastAttempt(a) == a >= maxAttempts

\* createIssues: issuesToCreate
issuesToCreate == Slice01(inputs)

\* createIssue(input) up to the first client.createIssue call of retry
CreateIssueStart(input) ==
  /\ lpc' = "attempt"
  /\ cur' = input
  /\ attempt' = 1
  /\ delay' = initialDelayMs
  /\ lastError' = NoError
  /\ status' = [status EXCEPT ![input] = "running"]

\* createIssues after the iteration of issuesToCreate[bk]: createIssue is
\* called for the next input, or issueIds is returned. st is the status of
\* the inputs, endpc and le the position and lastError of the call that
\* has ended.
LoopNext(st, endpc, le) ==
  IF bk < Len(issuesToCreate)
  THEN /\ bk' = bk + 1
       /\ bpc' = "inCreate"
       /\ lpc' = "attempt"
       /\ cur' = issuesToCreate[bk + 1]
       /\ attempt' = 1
       /\ delay' = initialDelayMs
       /\ lastError' = NoError
       /\ status' = [st EXCEPT ![issuesToCreate[bk + 1]] = "running"]
       /\ UNCHANGED returned
  ELSE /\ bpc' = "returned"
       /\ returned' = createdIds
       /\ lpc' = endpc
       /\ lastError' = le
       /\ status' = st
       /\ UNCHANGED <<bk, cur, attempt, delay>>

\* a catch that throws a new Error built from the message of the caught one
RethrownWrapped(error) ==
  [class |-> "wrapped", code |-> "", status |-> 0, message |-> error.message]

\* createIssue: catch (error) { ...; throw error }
Rethrown(error) == error

\* createIssue throws error (its catch logs and rethrows); inside
\* createIssues the catch of the loop records it and the loop goes on
Throw(error, le) ==
  /\ thrownErr' = [thrownErr EXCEPT ![cur] = Rethrown(error)]
  /\ IF entry = "createIssues"
     THEN /\ errors' = Append(errors, [title |-> cur,
                                       error |-> Rethrown(error)])
          /\ LoopNext([status EXCEPT ![cur] = "thrown"], "thrown", le)
          /\ UNCHANGED createdIds
     ELSE /\ status' = [status EXCEPT ![cur] = "thrown"]
          /\ lpc' = "thrown"
          /\ lastError' = le
          /\ UNCHANGED <<bpc, bk, createdIds, errors, returned, cur, attempt,
                         delay>>

\* the caller invokes createIssue(input)
CallCreateIssue ==
  /\ entry = "createIssue" /\ lpc = "idle"
  /\ CreateIssueStart(inputs[1])
  /\ UNCHANGED <<entry, inputs, bpc, bk, createdIds, errors, returned,
                 backendCalls, sleeps, errs, thrownErr>>
  /\ UNCHANGED reviewVars

\* the caller invokes createIssues(inputs)
CallCreateIssues ==
  /\ entry = "createIssues" /\ bpc = "idle"
  /\ bk' = 1
  /\ bpc' = "inCreate"
  /\ CreateIssueStart(issuesToCreate[1])
  /\ UNCHANGED <<entry, inputs, createdIds, errors, returned,
                 backendCalls, sleeps, errs, thrownErr>>
  /\ UNCHANGED reviewVars

\* retry: await fn(). It returns the payload, or throws an error that is
\* rethrown when not retryable or when this was the last attempt.
BackendCall ==
  /\ lpc = "attempt"
  /\ backendCalls' = [backendCalls EXCEPT ![cur] = @ + 1]
  /\ \/ /\ lpc' = "resolve"
        /\ UNCHANGED <<lastError, errs, status, thrownErr, cur, attempt,
                       delay, bpc, bk, createdIds, errors, returned>>
     \/ \E error \in BackendErrors :
          /\ errs' = [errs EXCEPT ![cur] = Append(@, error)]
          /\ IF ~retryableErrors(error) THEN Throw(error, error)
             ELSE IF ~LastAttempt(attempt)
             THEN /\ lpc' = "sleep"
                  /\ lastError' = error
                  /\ UNCHANGED <<status, thrownErr, cur, attempt, delay,
                                 bpc, bk, createdIds, errors, returned>>
             ELSE Throw(error, error)
  /\ UNCHANGED <<entry, inputs, sleeps>>
  /\ UNCHANGED reviewVars

\* a delay that does not grow
NextDelayConstant(d) == d

\* retry: delay = Math.min(delay * opts.backoffMultiplier, opts.maxDelayMs)
NextDelay(d) == Min(d * backoffMultiplier, maxDelayMs)

\* retry: await sleep(delay), then the next attempt
Sleep ==
  /\ lpc = "sleep"
  /\ sleeps' = [sleeps EXCEPT ![cur] = Append(@, delay)]
  /\ delay' = NextDelay(delay)
  /\ attempt' = attempt + 1
  /\ lpc' = "attempt"
  /\ UNCHANGED <<entry, inputs, bpc, bk, createdIds, errors, returned, cur,
                 lastError, backendCalls, errs, status, thrownErr>>
  /\ UNCHANGED reviewVars

\* createIssue: await issuePayload.issue; the id is returned, or the missing
\* issue or id is thrown
ResolveIssue ==
  /\ lpc = "resolve"
  /\ \/ /\ status' = [status EXCEPT ![cur] = "returned"]
        /\ lpc' = "returned"
        /\ IF entry = "createIssues"
           THEN /\ createdIds' = Append(createdIds, [id |-> cur])
                /\ bpc' = "pause"
           ELSE UNCHANGED <<createdIds, bpc>>
        /\ UNCHANGED <<bk, errors, returned, thrownErr, cur, attempt, delay,
                       lastError>>
     \/ \E error \in {NoIssueError, NoIdError} : Throw(error, lastError)
  /\ UNCHANGED <<entry, inputs, backendCalls, sleeps, errs>>
  /\ UNCHANGED reviewVars

\* createIssues: the 200 ms pause after a created issue, then the loop
Pause ==
  /\ bpc = "pause"
  /\ LoopNext(status, lpc, lastError)
  /\ UNCHANGED <<entry, inputs, createdIds, errors, backendCalls, sleeps,
                 errs, thrownErr>>
  /\ UNCHANGED reviewVars

\* a caller of LinearIssueCreator: one createIssue or one createIssues call
InitLinear ==
  /\ useKV = TRUE
  /\ slackConfigured = TRUE
  /\ InitReview
  /\ entry \in {"createIssue", "createIssues"}
  /\ \E n \in 1..MaxBatch : inputs = [k \in 1..n |-> k]
  /\ InitLinearIdle

NextLinear ==
  \/ CallCreateIssue
  \/ CallCreateIssues
  \/ BackendCall
  \/ Sleep
  \/ ResolveIssue
  \/ Pause

SpecLinear == InitLinear /\ [][NextLinear]_vars

\* ------------------------------------------------------- the webhook route
\* The requests that reach the route. express.json leaves req.body an
\* object, so rawBody (kept by its verify hook, or rebuilt from req.body) is
\* never empty. signature: the signature header is absent, or present and
\* rejected / accepted by verifyWebhookSignature; recording, transcript:
\* the payload has a recording / a transcript text.
Requests ==
  [signature : {"missing", "invalid", "valid"},
   recording : BOOLEAN, transcript : BOOLEAN]

\* a route that lets a request without signature header through
AuthenticatedUnlessInvalid(rq) == rq.signature # "invalid"

\* the request passes the two signature checks of the route
Authenticated(rq) == rq.signature = "valid"

\* the answer to a request that fails them
Unauthorized(rq) ==
  [status |-> 401,
   body   |-> IF rq.signature = "missing" THEN "Missing webhook signature"
              ELSE "Invalid signature"]

\* issues created by the route whether or not a reviewer is there
DirectCreateAlways(sc) == TRUE

\* if (services.slackReviewer) ... else: createIssues is called directly
DirectCreate(sc) == ~sc

\* a recap failure that lands in the catch around requestReview
RecapFailureResponseAwaited(r) ==
  IF r = NoResponse
  THEN [status |-> 500, body |-> "Failed to post review to Slack"] ELSE r

\* the response after the recap chain has failed: its .catch logs
RecapFailureResponse(r) == r

\* createIssues and createIssue, apart from the call the caller makes
lstate == <<bpc, bk, createdIds, errors, returned, lpc, cur, attempt, delay,
            lastError, backendCalls, sleeps, errs, status, thrownErr>>

\* the handler answers r, having called cs
WebhookEnd(r, cs) ==
  /\ wpc' = "done"
  /\ wres' = r
  /\ wcalls' = wcalls \o cs

\* A request arrives: the handler runs up to its first await. The signature
\* checks come first; logTranscript is started and not awaited.
Receive ==
  /\ wpc = "idle"
  /\ \E rq \in Requests :
       /\ wreq' = rq
       /\ IF ~Authenticated(rq)
          THEN /\ WebhookEnd(Unauthorized(rq), <<>>)
               /\ UNCHANGED glog
          ELSE IF ~rq.recording
          THEN /\ WebhookEnd([status |-> 500,
                              body |-> "Internal server error"], <<>>)
               /\ UNCHANGED glog
          ELSE /\ glog' = "running"
               /\ IF ~rq.transcript
                  THEN WebhookEnd([status |-> 400,
                                   body |-> "No transcript found in webhook"],
                                  <<"logTranscript">>)
                  ELSE /\ wpc' = "extract"
                       /\ wcalls' = <<"logTranscript", "extract">>
                       /\ UNCHANGED wres
  /\ UNCHANGED <<slackConfigured, recap, witems, svars, lvars, xvars>>

\* the numbers of action items an extraction can yield
ExtractedCounts == {0, NumIssues}

\* an empty extraction handed on like any other
NoItemsNever(n) == FALSE

\* actionItems.length === 0
NoItems(n) == n = 0

\* actionExtractor.extract settles: it throws, finds nothing, or finds the
\* action items, which are handed to the transformer
ExtractDone ==
  /\ wpc = "extract"
  /\ \/ /\ WebhookEnd([status |-> 500,
                       body |-> "Failed to extract action items"], <<>>)
        /\ UNCHANGED witems
     \/ \E n \in ExtractedCounts :
          /\ witems' = n
          /\ IF NoItems(n)
             THEN WebhookEnd([status |-> 200,
                              body |-> "No action items found"], <<>>)
             ELSE /\ wpc' = "transform"
                  /\ wcalls' = Append(wcalls, "transformActionItem")
                  /\ UNCHANGED wres
  /\ UNCHANGED <<slackConfigured, wreq, glog, recap, svars, lvars, xvars>>

\* Promise.all of the transforms settles. With a reviewer the recap chain is
\* started, not awaited, and requestReview is called; without one
\* linearCreator.createIssues is called.
TransformDone ==
  /\ wpc = "transform"
  /\ \/ /\ WebhookEnd([status |-> 500,
                       body |-> "Failed to transform action items"], <<>>)
        /\ UNCHANGED <<recap, entry, inputs>>
     \/ /\ ~DirectCreate(slackConfigured)
        /\ recap' = "generating"
        /\ wpc' = "review"
        /\ wcalls' = wcalls \o <<"generateRecap", "requestReview">>
        /\ UNCHANGED <<wres, entry, inputs>>
     \/ /\ DirectCreate(slackConfigured)
        /\ wpc' = "create"
        /\ entry' = "createIssues"
        /\ inputs' = [k \in 1..NumIssues |-> k]
        /\ wcalls' = Append(wcalls, "createIssues")
        /\ UNCHANGED <<wres, recap>>
  /\ UNCHANGED <<slackConfigured, wreq, glog, witems, svars, lstate,
                 xvars>>

\* the requestReview call of the request: its chat.postMessage settles
RequestReviewCalled ==
  /\ wpc = "review"
  /\ \A q \in Reviews : rpc[q] = "idle"
  /\ \E r \in Reviews : RequestReviewPost(r)

\* requestReview has returned or thrown: the handler answers
ReviewRespond ==
  /\ wpc = "review"
  /\ \E r \in Reviews :
       /\ rpc[r] \in {"returned", "thrown"}
       /\ WebhookEnd(WebhookResponse(rpc[r] = "thrown"), <<>>)
  /\ UNCHANGED <<slackConfigured, wreq, glog, recap, witems, svars, lvars, xvars>>

\* createIssues has returned: the handler answers with the number of ids
CreateRespond ==
  /\ wpc = "create"
  /\ bpc = "returned"
  /\ WebhookEnd([status |-> 200,
                 body |-> "Processing complete - issues created in Linear",
                 issuesCreated |-> Len(returned)], <<>>)
  /\ UNCHANGED <<slackConfigured, wreq, glog, recap, witems, svars, lvars, xvars>>

\* logTranscript settles; its .catch logs a failure
LogTranscriptDone ==
  /\ glog = "running"
  /\ glog' \in {"done", "failed"}
  /\ UNCHANGED <<slackConfigured, wpc, wreq, wres, wcalls, recap, witems,
                 svars, lvars, xvars>>

\* generateRecap settles: the text goes to postRecapMessage, or the chain
\* fails
RecapGenerated ==
  /\ recap = "generating"
  /\ \/ recap' = "posting" /\ UNCHANGED wres
     \/ recap' = "failed" /\ wres' = RecapFailureResponse(wres)
  /\ UNCHANGED <<slackConfigured, wpc, wreq, wcalls, glog, witems, svars,
                 lvars, xvars>>

\* postRecapMessage settles: chat.postMessage of the recap, rethrown on
\* failure
RecapPosted ==
  /\ recap = "posting"
  /\ \/ recap' = "posted" /\ UNCHANGED wres
     \/ recap' = "failed" /\ wres' = RecapFailureResponse(wres)
  /\ UNCHANGED <<slackConfigured, wpc, wreq, wcalls, glog, witems, svars,
                 lvars, xvars>>

\* createWebhookRouter with or without a reviewer, no request yet
InitWebhook ==
  /\ useKV \in BOOLEAN
  /\ slackConfigured \in BOOLEAN
  /\ InitReview
  /\ entry = "none"
  /\ inputs = <<>>
  /\ InitLinearIdle

\* one request to the route, the work it starts and the clicks on the
\* buttons of the review it posts
NextWebhook ==
  \/ Receive
  \/ ExtractDone
  \/ TransformDone
  \/ RequestReviewCalled
  \/ \E r \in Reviews : RequestReviewStore(r)
  \/ \E r \in Reviews : RequestReviewVerify(r)
  \/ ReviewRespond
  \/ CallCreateIssues
  \/ BackendCall
  \/ Sleep
  \/ ResolveIssue
  \/ Pause
  \/ CreateRespond
  \/ LogTranscriptDone
  \/ RecapGenerated
  \/ RecapPosted
  \/ \E h \in Handlers : Ack(h)
  \/ \E h \in Handlers : Lookup(h)
  \/ \E h \in Handlers : CreateDone(h)
  \/ \E h \in Handlers : SetDone(h)
  \/ \E h \in Handlers : UpdateDone(h)

SpecWebhook == InitWebhook /\ [][NextWebhook]_vars

\* ----------------------------------------------------- createReviewBlocks
\* the sequences over S of length at most n
SeqsUpTo(S, n) == UNION {[1..k -> S] : k \in 0..n}

\* records as the handlers can find them: any approved and rejected lists
InitBlocks ==
  /\ useKV = TRUE
  /\ slackConfigured = TRUE
  /\ \E a \in SeqsUpTo(IndexInputs, MaxListLen),
        b \in SeqsUpTo(IndexInputs, MaxListLen) :
       kvStore = [r \in Reviews |->
                    [data |-> [NewReviewData(r, 0) EXCEPT
                                 !.approvedIssues = a, !.rejectedIssues = b],
                     expiresAt |-> ExSeconds]]
  /\ slackMessage = [r \in Reviews |-> <<>>]
  /\ InitIdle
  /\ InitNoCall
  /\ entry = "none"
  /\ inputs = <<>>
  /\ InitLinearIdle

\* the blocks of the review message are built from a record
RenderBlocks(r) ==
  /\ slackMessage[r] = <<>>
  /\ slackMessage' = [slackMessage EXCEPT ![r] =
        createReviewBlocks(kvStore[r].data.actionItems,
                           kvStore[r].data.linearIssues, r,
                           kvStore[r].data.approvedIssues,
                           kvStore[r].data.rejectedIssues)]
  /\ UNCHANGED <<useKV, now, kvStore, createCalls, rvars, hvars, ovars>>

NextBlocks == \E r \in Reviews : RenderBlocks(r)

SpecBlocks == InitBlocks /\ [][NextBlocks]_vars

\* ------------------------------------------------- verifyWebhookSignature
\* A string without ',' and ' ' is modelled by its dot-separated parts: the
\* secret "id.s" is <<"id", "s">>, the key "id" is <<"id">>, '' is <<"">>.
KeyParts == {"", "k1", "k2"}
Secrets == UNION {[1..k -> KeyParts] : k \in 1..MaxSecretParts}

\* rawBody: a string, or a value that is not one (Hmac.update throws on it)
NoBody == "undefined"
StringBodies == {"b1", "b2"}
Bodies == StringBodies \cup {NoBody}

\* base64 HMAC-SHA256 of the body under the key: different keys or bodies
\* give different digests
Hmac(key, body) == <<key, body>>

\* what the signature block of a header can hold between its spaces
Junk == Hmac(<<"other">>, "b1")
Tokens == {Hmac(k, b) : k \in Secrets, b \in StringBodies} \cup {Junk}

\* the signature header: '' (EmptyHeader), or version[,block] with the
\* block's tokens (hasBlock: there is a ',' in the header; a block <<>> is
\* nothing, or nothing but spaces, after the ',')
Headers == {EmptyHeader} \cup {h \in [version : {"v1", "v0"}, hasBlock : BOOLEAN, block : SeqsUpTo(Tokens, MaxSigs)] : ~h.hasBlock => h.block = <<>>}

IsEmptyString(key) == key = <<"">>

keyCandidates(secret) == {k \in {secret} \cup (IF Len(secret) > 1 THEN {<<secret[1]>>, <<secret[2]>>} ELSE {}) : ~IsEmptyString(k)}

receivedSet(block) == {block[i] : i \in 1..Len(block)}

verifyWebhookSignature(secret, signature, rawBody) ==
  IF signature = EmptyHeader THEN FALSE
  ELSE IF signature.version # "v1" THEN FALSE
  ELSE IF ~signature.hasBlock \/ signature.block = <<>> THEN FALSE
  ELSE IF rawBody = NoBody THEN FALSE   \* the catch clause
  ELSE \E key \in keyCandidates(secret) :
         Hmac(key, rawBody) \in receivedSet(signature.block)

VerifyInputs == [secret : Secrets, signature : Headers, rawBody : Bodies]

InitVerify ==
  /\ useKV = TRUE
  /\ slackConfigured = TRUE
  /\ kvStore = [r \in Reviews |-> NoEntry]
  /\ slackMessage = [r \in Reviews |-> <<>>]
  /\ InitIdle
  /\ entry = "none"
  /\ inputs = <<>>
  /\ InitLinearIdle
  /\ vin \in VerifyInputs
  /\ vout = "none"

Verify ==
  /\ vout = "none"
  /\ vout' = IF verifyWebhookSignature(vin.secret, vin.signature, vin.rawBody)
             THEN "true" ELSE "false"
  /\ UNCHANGED <<vin, svars, lvars, wvars>>

NextVerify == Verify

SpecVerify == InitVerify /\ [][NextVerify]_vars

\* ------------------------------------------------------------ specification
Next ==
  \/ Tick
  \/ \E r \in Reviews : RequestReviewPost(r)
  \/ \E r \in Reviews : RequestReviewStore(r)
  \/ \E r \in Reviews : RequestReviewVerify(r)
  \/ \E h \in Handlers : Ack(h)
  \/ \E h \in Handlers : Lookup(h)
  \/ \E h \in Handlers : CreateDone(h)
  \/ \E h \in Handlers : SetDone(h)
  \/ \E h \in Handlers : UpdateDone(h)

Spec == Init /\ [][Next]_vars

\* ------------------------------------------------------------- properties
Started(h) == pc[h] # "idle"
Ended(h) == pc[h] = "done"
ValidIndex(i) == i \in 0..(NumIssues - 1)

\* h2 was clicked after h1 had ended
Successive(h1, h2) == h1 \in doneBefore[h2]

\* no invocation other than h1 and h2 has acted on the review of h1
OnlyOnReview(h1, h2) ==
  \A g \in Handlers \ {h1, h2} : Started(g) => rid[g] # rid[h1]

\* every external call of the ended invocation h succeeded
NoFailure(h) ==
  ev[h] \cap {"createFailed", "storeFailed", "updateFailed", "respondFailed"} = {}

\* the case of C1: h1 succeeded on a valid item, h2 then repeated the action
\* and found the record
RepeatedAction(h1, h2) ==
  /\ useKV
  /\ Ended(h1) /\ Ended(h2) /\ Successive(h1, h2)
  /\ action[h1] = action[h2] /\ rid[h1] = rid[h2] /\ idx[h1] = idx[h2]
  /\ ValidIndex(idx[h1])
  /\ OnlyOnReview(h1, h2)
  /\ outcome[h1] = "Success"
  /\ "found" \in ev[h2] /\ "respondFailed" \notin ev[h2]

\* C1: two successive approve_issue (or two successive reject_issue) actions
\* on the same item of a stored review, with nothing else running on the
\* review: after the first succeeded the second is answered "already
\* processed", and createIssue was called once in all for the item (approve)
\* or not at all (reject).
C1_Idempotent ==
  \A h1 \in Handlers, h2 \in Handlers :
    RepeatedAction(h1, h2) =>
      /\ outcome[h2] = "Already"
      /\ createCalls[<<rid[h1], idx[h1]>>] =
           IF action[h1] = "approve_issue" THEN 1 ELSE 0

C1_Witness ==
  \E h1 \in Handlers, h2 \in Handlers :
    /\ RepeatedAction(h1, h2)
    /\ action[h1] = "approve_issue"
    /\ outcome[h2] = "Already"

\* h1 and h2 were in flight at the same time
Concurrent(h1, h2) ==
  /\ h1 # h2 /\ Started(h1) /\ Started(h2)
  /\ ~Successive(h1, h2) /\ ~Successive(h2, h1)

\* C2: of two approve_issue invocations on the same item that run
\* concurrently, at most one passes the already-processed check and reaches
\* createIssue.
C2_OnePassesCheck ==
  \A h1 \in Handlers, h2 \in Handlers :
    ( /\ Concurrent(h1, h2)
      /\ action[h1] = "approve_issue" /\ action[h2] = "approve_issue"
      /\ rid[h1] = rid[h2] /\ idx[h1] = idx[h2] )
    => ~("createCalled" \in ev[h1] /\ "createCalled" \in ev[h2])

\* the started invocations on review r act on pairwise distinct indices
DistinctIndices(r) ==
  \A h1 \in Handlers, h2 \in Handlers :
    (h1 # h2 /\ Started(h1) /\ Started(h2) /\ rid[h1] = r /\ rid[h2] = r)
      => idx[h1] # idx[h2]

\* C3: when the approve_issue / reject_issue invocations on a review act on
\* pairwise distinct indices, createIssue is called at most once for each
\* issue of the review, whatever the interleaving.
C3_NoDoubleCreate ==
  \A r \in Reviews :
    DistinctIndices(r) =>
      \A i \in 0..(NumIssues - 1) : createCalls[<<r, i>>] <= 1

C3_Witness ==
  \E h1 \in Handlers, h2 \in Handlers :
    /\ Concurrent(h1, h2)
    /\ rid[h1] = rid[h2] /\ idx[h1] # idx[h2]
    /\ action[h1] = "approve_issue" /\ action[h2] = "approve_issue"
    /\ Ended(h1) /\ Ended(h2)
    /\ "created" \in ev[h1] /\ "created" \in ev[h2]
    /\ createCalls[<<rid[h1], idx[h1]>>] = 1
    /\ createCalls[<<rid[h2], idx[h2]>>] = 1

Stored(r) == kvStore[r] # NoEntry
StoredApproved(r, i) == Stored(r) /\ Includes(kvStore[r].data.approvedIssues, i)
StoredRejected(r, i) == Stored(r) /\ Includes(kvStore[r].data.rejectedIssues, i)

\* C4: per-item state is monotone in the store: once a stored version of a
\* record lists an index as approved (rejected), every later stored version
\* lists it as approved (rejected) too, as long as the record is stored.
C4_TerminalMonotone ==
  [][\A r \in Reviews, i \in IndexInputs :
       (Stored(r) /\ kvStore'[r] # NoEntry) =>
         /\ StoredApproved(r, i) =>
              Includes(kvStore'[r].data.approvedIssues, i)
         /\ StoredRejected(r, i) =>
              Includes(kvStore'[r].data.rejectedIssues, i)]_vars

\* C5: no step of a reject_issue invocation calls createIssue, whatever its
\* store and Slack calls return.
C5_RejectNeverCreates ==
  [][\A h \in Handlers :
       (action'[h] = "reject_issue" /\ pc'[h] # pc[h])
         => createCalls' = createCalls]_vars

C5_Witness ==
  \E h \in Handlers :
    /\ action[h] = "reject_issue" /\ Ended(h)
    /\ ValidIndex(idx[h])
    /\ outcome[h] = "Success"
    /\ StoredRejected(rid[h], idx[h])
    /\ createCalls[<<rid[h], idx[h]>>] = 0

\* C6: when createIssue throws in approve_issue, the invocation writes
\* nothing to the store, the item stays Pending in the stored record and
\* the user is told of the failure; a later approve_issue on the item whose
\* calls succeed is answered Success and stores the item as approved.
C6_FailedCreateStaysPending ==
  \A h1 \in Handlers :
    (action[h1] = "approve_issue" /\ "createFailed" \in ev[h1]) =>
      /\ Ended(h1)
      /\ "stored" \notin ev[h1]
      /\ outcome[h1] \in {"CreateFailed", "Error", "uncaught"}
      /\ "respondFailed" \notin ev[h1] => outcome[h1] = "CreateFailed"
      /\ (OnlyOnReview(h1, h1) /\ Stored(rid[h1])) =>
           /\ ~StoredApproved(rid[h1], idx[h1])
           /\ ~StoredRejected(rid[h1], idx[h1])
      /\ \A h2 \in Handlers :
           ( /\ Successive(h1, h2) /\ Ended(h2)
             /\ action[h2] = "approve_issue"
             /\ rid[h2] = rid[h1] /\ idx[h2] = idx[h1]
             /\ OnlyOnReview(h1, h2)
             /\ "found" \in ev[h2] /\ NoFailure(h2) )
           => /\ outcome[h2] = "Success"
              /\ {"created", "stored"} \subseteq ev[h2]
              /\ Stored(rid[h2]) => StoredApproved(rid[h2], idx[h2])

C6_Witness ==
  \E h1 \in Handlers, h2 \in Handlers :
    /\ action[h1] = "approve_issue" /\ "createFailed" \in ev[h1]
    /\ outcome[h1] = "CreateFailed"
    /\ Successive(h1, h2) /\ Ended(h2)
    /\ action[h2] = "approve_issue"
    /\ rid[h2] = rid[h1] /\ idx[h2] = idx[h1]
    /\ outcome[h2] = "Success"
    /\ StoredApproved(rid[h2], idx[h2])
    /\ createCalls[<<rid[h1], idx[h1]>>] = 2

\* C7: an action on a reviewId that has no record in the store (never
\* stored, or expired) ends at the lookup with "Review not found or
\* expired", calls createIssue not at all and writes nothing to the store;
\* "already processed" is answered only while the record is stored.
C7_NotFound ==
  [][\A h \in Handlers :
       (pc[h] = "acked" /\ pc'[h] # "acked") =>
         /\ ~Stored(rid[h]) =>
              /\ pc'[h] = "done"
              /\ createCalls' = createCalls
              /\ kvStore' = kvStore
              /\ outcome'[h] \in {"NotFound", "Error", "uncaught"}
              /\ "respondFailed" \notin ev'[h] => outcome'[h] = "NotFound"
         /\ outcome'[h] = "Already" => Stored(rid[h])]_vars

C7_Witness ==
  \E h \in Handlers :
    /\ useKV /\ Ended(h) /\ outcome[h] = "NotFound"
    /\ "stored" \in rev[rid[h]]
    /\ ~Stored(rid[h]) /\ now >= origExpiry[rid[h]]
    /\ \A p \in AllPayloads : createCalls[p] = 0

\* no invocation is in flight on review r
Quiescent(r) == \A h \in Handlers : (Started(h) /\ rid[h] = r) => Ended(h)

\* C8: once the per-item actions on a review have ended and no index is
\* Pending, the record is gone from the store: a record is kept only while
\* some index is still Pending.
C8_ResolvedDeleted ==
  \A r \in Reviews :
    (Stored(r) /\ Quiescent(r)) =>
      \E i \in 0..(NumIssues - 1) :
        ~StoredApproved(r, i) /\ ~StoredRejected(r, i)

\* the default TTL of a review record, seconds
DefaultTTLSeconds == 1800

C10_ReturnedImpliesStored ==
  \A r \in Reviews :
    (useKV /\ rpc[r] = "returned") => "stored" \in rev[r]

\* C10 as amended: in KV mode requestReview returns a reviewId once the
\* message is posted and the store write was attempted; a write that
\* succeeded stored the record with every index Pending, the message
\* reference and the default TTL; a write that failed is swallowed. Only a
\* failed post is thrown, and then nothing is stored.
C10_ReturnedStoredOrSwallowed ==
  /\ [](\A r \in Reviews :
          /\ (useKV /\ rpc[r] = "returned") =>
               /\ "posted" \in rev[r]
               /\ ("stored" \in rev[r]) # ("storeFailed" \in rev[r])
          /\ rpc[r] = "thrown" =>
               /\ "postFailed" \in rev[r]
               /\ rev[r] \cap {"posted", "stored"} = {})
  /\ [][\A r \in Reviews :
          ("stored" \in rev'[r] /\ "stored" \notin rev[r]) =>
            /\ kvStore'[r] # NoEntry
            /\ kvStore'[r].expiresAt = now + DefaultTTLSeconds
            /\ kvStore'[r].data.approvedIssues = <<>>
            /\ kvStore'[r].data.rejectedIssues = <<>>
            /\ kvStore'[r].data.linearIssues = IssueInputs(r)
            /\ kvStore'[r].data.messageTs = r
            /\ kvStore'[r].data.channelId = "channel"]_vars

C10_Witness ==
  \E r \in Reviews :
    /\ useKV /\ rpc[r] = "returned" /\ "stored" \in rev[r]
    /\ Stored(r)
    /\ kvStore[r].data.approvedIssues = <<>>
    /\ kvStore[r].data.rejectedIssues = <<>>
    /\ kvStore[r].data.messageTs = r

CallEnded(p) == status[p] \in {"returned", "thrown"}

\* the text of error e holds none of the substrings createIssue retries on
NoRetryableText(e) == e.message \cap RetryableSubstrings = {}

\* every client.createIssue call made for input p threw, and threw an error
\* whose text createIssue retries on
AllFailedRetryable(p) ==
  /\ backendCalls[p] > 0
  /\ Len(errs[p]) = backendCalls[p]
  /\ \A k \in 1..Len(errs[p]) : ~NoRetryableText(errs[p][k])

\* the attempt bound createIssue configures
ConfiguredAttempts == 3

\* C12: a createIssue call whose backend call fails with a retryable error
\* on every attempt invokes the backend exactly 3 times and then throws the
\* last error; it is not reported as a success, its id is in no result, and
\* no call invokes the backend a fourth time.
C12_RetryBound ==
  \A p \in Payloads :
    /\ backendCalls[p] <= ConfiguredAttempts
    /\ (CallEnded(p) /\ AllFailedRetryable(p)) =>
         /\ backendCalls[p] = ConfiguredAttempts
         /\ status[p] = "thrown"
         /\ thrownErr[p] = errs[p][ConfiguredAttempts]
         /\ \A j \in 1..Len(createdIds) : createdIds[j] # [id |-> p]

C12_Witness ==
  \E p \in Payloads :
    /\ status[p] = "thrown" /\ AllFailedRetryable(p)
    /\ backendCalls[p] = 3
    /\ sleeps[p] = <<1000, 2000>>
    /\ thrownErr[p].class = "timeout"

\* C13: when a backend call throws an error whose text createIssue does not
\* retry on (a client-side 4xx error among them), that call was the last
\* one of the createIssue call, no sleep follows it and createIssue throws
\* that very error, at whichever attempt it happens.
C13_NonRetryableOnce ==
  \A p \in Payloads : \A k \in 1..Len(errs[p]) :
    NoRetryableText(errs[p][k]) =>
      /\ k = Len(errs[p])
      /\ backendCalls[p] = k
      /\ Len(sleeps[p]) = k - 1
      /\ status[p] = "thrown"
      /\ thrownErr[p] = errs[p][k]

C13_Witness ==
  \E p \in Payloads :
    /\ status[p] = "thrown"
    /\ Len(errs[p]) = 2 /\ backendCalls[p] = 2
    /\ ~NoRetryableText(errs[p][1])
    /\ errs[p][2].class = "client"
    /\ sleeps[p] = <<1000>>
    /\ thrownErr[p] = errs[p][2]

\* C14: a backend call that fails with a network reset, a timeout or a
\* server-side (5xx) error before the last attempt is followed by another
\* attempt: createIssue does not end by throwing it.
C14_ClassesRetried ==
  \A p \in Payloads : \A k \in 1..Len(errs[p]) :
    ( /\ errs[p][k].class \in {"reset", "timeout", "server"}
      /\ k < ConfiguredAttempts )
    => ~(status[p] = "thrown" /\ backendCalls[p] = k)

\* x is a failure entry for the input at position k
IsFailureEntry(x, k) == DOMAIN x = {"index", "title", "error"} /\ x.index = k

\* C15: when createIssues has returned and exactly the call for input k
\* threw a client-side error while no other call failed, the caller has
\* received the ids of the other N-1 inputs and one failure entry for k.
C15_PartialBatch ==
  \A k \in 1..Len(inputs) :
    ( /\ entry = "createIssues" /\ bpc = "returned"
      /\ status[k] = "thrown" /\ thrownErr[k].class = "client"
      /\ \A j \in 1..Len(inputs) : j # k => status[j] # "thrown" )
    => /\ Cardinality({j \in 1..Len(returned) :
                         DOMAIN returned[j] = {"id"}}) = Len(inputs) - 1
       /\ \E j \in 1..Len(returned) : IsFailureEntry(returned[j], k)

\* the positions in message m of the sections of the issue with index i
SectionsOf(m, i) ==
  {k \in 1..Len(m) : /\ m[k].type = "section"
                     /\ "number" \in DOMAIN m[k]
                     /\ m[k].number = i + 1}

\* the positions in message m of the actions blocks with a button for
\* index i of review r
ActionsOf(m, r, i) ==
  {k \in 1..Len(m) : /\ m[k].type = "actions"
                     /\ \E e \in 1..Len(m[k].elements) :
                          m[k].elements[e].value = <<r, i>>}

\* C16: in the blocks createReviewBlocks builds from a record, every index
\* i of linearIssues has one section; for i in approvedIssues or
\* rejectedIssues the section carries the badge (Approved before Rejected)
\* and no actions block has a button for i; for any other i the section has
\* no badge and is followed by one actions block with exactly the two
\* buttons approve_issue and reject_issue, both with the value reviewId:i.
C16_BlocksMatchState ==
  \A r \in Reviews :
    (slackMessage[r] # <<>> /\ Stored(r)) =>
      LET m == slackMessage[r]
          d == kvStore[r].data
      IN \A i \in 0..(Len(d.linearIssues) - 1) :
           /\ Cardinality(SectionsOf(m, i)) = 1
           /\ LET k == CHOOSE k \in SectionsOf(m, i) : TRUE
                  isApproved == \E j \in 1..Len(d.approvedIssues) :
                                   d.approvedIssues[j] = i
                  isRejected == \E j \in 1..Len(d.rejectedIssues) :
                                   d.rejectedIssues[j] = i
              IN IF isApproved \/ isRejected
                 THEN /\ m[k].status =
                           IF isApproved THEN "Approved" ELSE "Rejected"
                      /\ ActionsOf(m, r, i) = {}
                 ELSE /\ m[k].status = ""
                      /\ ActionsOf(m, r, i) = {k + 1}
                      /\ Len(m[k + 1].elements) = 2
                      /\ m[k + 1].elements[1].action_id = "approve_issue"
                      /\ m[k + 1].elements[2].action_id = "reject_issue"
                      /\ \A e \in 1..2 : m[k + 1].elements[e].value = <<r, i>>

C16_Witness ==
  \E r \in Reviews :
    /\ slackMessage[r] # <<>>
    /\ kvStore[r].data.approvedIssues = <<1>>
    /\ kvStore[r].data.rejectedIssues = <<>>
    /\ Len(slackMessage[r]) = 2 + NumIssues + (NumIssues - 1)
    /\ slackMessage[r][3].type = "section" /\ slackMessage[r][3].status = ""
    /\ slackMessage[r][4].type = "actions"
    /\ slackMessage[r][5].status = "Approved"

\* C17: a bulk invocation (approve_issues / reject_issues) that has put the
\* processing rendering on the review message has, by the time it ends,
\* replaced it by a final-state rendering or by an error rendering.
C17_ProcessingReplaced ==
  \A h \in Handlers :
    ( /\ action[h] \in {"approve_issues", "reject_issues"}
      /\ Ended(h) /\ "processingShown" \in ev[h] )
    => ("finalShown" \in ev[h] \/ "errorShown" \in ev[h])

\* the number of ack() calls among the calls cs
AckCount(cs) == Cardinality({k \in 1..Len(cs) : cs[k] = "ack"})

\* C18: in each of the four handlers ack() is the first call of an
\* invocation and is called once: the step that starts an invocation calls
\* ack() and touches neither the store, nor the review message, nor Linear,
\* and no later step of the invocation calls ack() again.
C18_AckFirstOnce ==
  /\ [](\A h \in Handlers :
          Started(h) => /\ Len(calls[h]) > 0
                        /\ calls[h][1] = "ack"
                        /\ AckCount(calls[h]) = 1)
  /\ [][\A h \in Handlers :
          (pc[h] = "idle" /\ pc'[h] # "idle") =>
            /\ calls'[h] = <<"ack">>
            /\ kvStore' = kvStore
            /\ slackMessage' = slackMessage
            /\ createCalls' = createCalls]_vars

C18_Witness ==
  \E h1 \in Handlers, h2 \in Handlers :
    /\ action[h1] = "approve_issues" /\ Ended(h1)
    /\ calls[h1] = <<"ack", "chat.update", "kv.get", "createIssues",
                     "chat.update", "respond", "kv.del">>
    /\ action[h2] = "reject_issue" /\ Ended(h2)
    /\ calls[h2] = <<"ack", "kv.get", "kv.set", "chat.update", "respond">>

\* C19: while the createIssue call of an approve_issue invocation is in
\* flight, the invocation has already pushed an update of the review
\* message and the message offers no button for the clicked item.
C19_ProcessingBeforeCreate ==
  \A h \in Handlers :
    (action[h] = "approve_issue" /\ pc[h] = "create") =>
      /\ \E k \in 1..Len(calls[h]) : calls[h][k] = "chat.update"
      /\ ActionsOf(slackMessage[rid[h]], rid[h], idx[h]) = {}

\* the blocks createReviewBlocks builds from the stored record of review r
StoredBlocks(r) ==
  createReviewBlocks(kvStore[r].data.actionItems,
                     kvStore[r].data.linearIssues, r,
                     kvStore[r].data.approvedIssues,
                     kvStore[r].data.rejectedIssues)

\* C20: once the approve_issue / reject_issue invocations on a review have
\* all ended, none of their calls having failed and one of them at least
\* having updated the message, the review message equals the blocks built
\* from the record as it is stored.
C20_MessageProjectsStore ==
  \A r \in Reviews :
    ( /\ Stored(r) /\ Quiescent(r)
      /\ \A h \in Handlers : (Started(h) /\ rid[h] = r) => NoFailure(h)
      /\ \E h \in Handlers : rid[h] = r /\ "updated" \in ev[h] )
    => slackMessage[r] = StoredBlocks(r)

\* the fields of a record that requestReview sets and no handler assigns
SameFrame(d1, d2) ==
  /\ d1.actionItems = d2.actionItems
  /\ d1.linearIssues = d2.linearIssues
  /\ d1.messageTs = d2.messageTs
  /\ d1.channelId = d2.channelId
  /\ d1.timestamp = d2.timestamp

\* C21: every store write of an approve_issue / reject_issue invocation
\* writes only the record of its review and leaves actionItems,
\* linearIssues, messageTs, channelId and timestamp as requestReview built
\* them; two successive stored versions of a review differ in
\* approvedIssues and rejectedIssues at most.
C21_HandlerWritesKeepFrame ==
  [][/\ \A h \in Handlers :
          (pc[h] = "set" /\ pc'[h] # "set" /\ kvStore' # kvStore) =>
            /\ \A r \in Reviews \ {rid[h]} : kvStore'[r] = kvStore[r]
            /\ kvStore'[rid[h]] # NoEntry
            /\ SameFrame(kvStore'[rid[h]].data, rdata[rid[h]])
     /\ \A r \in Reviews :
          (Stored(r) /\ kvStore'[r] # NoEntry) =>
            SameFrame(kvStore'[r].data, kvStore[r].data)]_vars

C21_Witness ==
  \E h \in Handlers :
    /\ action[h] = "approve_issue" /\ "stored" \in ev[h]
    /\ Stored(rid[h])
    /\ kvStore[rid[h]].data.approvedIssues = <<idx[h]>>
    /\ kvStore[rid[h]].data.timestamp < now
    /\ SameFrame(kvStore[rid[h]].data, NewReviewData(rid[h], 0))

\* the handler has called c
WebhookCalled(c) == \E k \in 1..Len(wcalls) : wcalls[k] = c

\* C22: with a reviewer configured the recap chain is started in the step
\* that calls requestReview and is not awaited: no step of the chain changes
\* the position or the response of the handler, the requestReview
\* invocation, the store or the review message, and the response, once
\* sent, is the one requestReview's outcome alone decides.
C22_RecapDetached ==
  /\ [](/\ recap # "none" => (slackConfigured /\ WebhookCalled("requestReview"))
        /\ (wpc = "done" /\ WebhookCalled("requestReview")) =>
             \E r \in Reviews :
               /\ rpc[r] \in {"returned", "thrown"}
               /\ wres = IF rpc[r] = "thrown"
                         THEN [status |-> 500,
                               body |-> "Failed to post review to Slack"]
                         ELSE [status |-> 200,
                               body |-> "Processing started - recap posting, review pending in Slack"])
  /\ [][recap' # recap /\ recap # "none" =>
          UNCHANGED <<wpc, wres, wcalls, kvStore, slackMessage, createCalls,
                      rvars>>]_vars

C22_Witness ==
  \E r \in Reviews :
    /\ wpc = "done" /\ wres.status = 200
    /\ rpc[r] = "returned" /\ Stored(r)
    /\ recap = "generating"

\* C23: an approve_issue / reject_issue invocation that has ended has ended
\* with a text delivered to the user: no exception has left the handler,
\* whichever of its store, createIssue, chat.update and respond calls
\* failed.
C23_NoEscape ==
  \A h \in Handlers :
    (Ended(h) /\ action[h] \in {"approve_issue", "reject_issue"}) =>
      /\ outcome[h] # "uncaught"
      /\ outcome[h] \in {"NotFound", "Already", "IssueNotFound",
                         "CreateFailed", "Error", "Success"}

\* the createIssue call of h succeeded and h has not stored the item
CreatedNotStored(h) ==
  /\ action[h] = "approve_issue"
  /\ "created" \in ev[h] /\ "stored" \notin ev[h]

\* C24: while an approve_issue invocation whose createIssue call succeeded
\* has not stored the item (it is held up before storeReviewKV, or
\* storeReviewKV failed), the item is Pending in the stored record, and any
\* other approve_issue on the item that finds the record passes the
\* already-processed check and calls createIssue again for the same input;
\* when storeReviewKV failed the user is told of a failure.
C24_AtLeastOnce ==
  \A h1 \in Handlers :
    CreatedNotStored(h1) =>
      /\ createCalls[<<rid[h1], idx[h1]>>] >= 1
      /\ "storeFailed" \in ev[h1] =>
           /\ Ended(h1)
           /\ outcome[h1] \in {"CreateFailed", "Error", "uncaught"}
      /\ \A h2 \in Handlers \ {h1} :
           ( /\ action[h2] = "approve_issue"
             /\ rid[h2] = rid[h1] /\ idx[h2] = idx[h1]
             /\ OnlyOnReview(h1, h2) )
           => /\ ("stored" \notin ev[h2] /\ Stored(rid[h1])) =>
                   /\ ~StoredApproved(rid[h1], idx[h1])
                   /\ ~StoredRejected(rid[h1], idx[h1])
              /\ "found" \in ev[h2] =>
                   /\ "createCalled" \in ev[h2]
                   /\ createCalls[<<rid[h1], idx[h1]>>] = 2

C24_Witness ==
  \E h1 \in Handlers, h2 \in Handlers :
    /\ CreatedNotStored(h1) /\ "storeFailed" \in ev[h1]
    /\ outcome[h1] = "CreateFailed"
    /\ Successive(h1, h2) /\ Ended(h2)
    /\ action[h2] = "approve_issue"
    /\ rid[h2] = rid[h1] /\ idx[h2] = idx[h1]
    /\ outcome[h2] = "Success"
    /\ StoredApproved(rid[h2], idx[h2])
    /\ createCalls[<<rid[h1], idx[h1]>>] = 2

\* nothing has been started for the request: no GitHub logging, no
\* extraction, no recap, no review, no Linear call
NothingStarted ==
  /\ wcalls = <<>>
  /\ glog = "none" /\ recap = "none"
  /\ \A r \in Reviews : rpc[r] = "idle" /\ slackMessage[r] = <<>> /\ ~Stored(r)
  /\ \A p \in AllPayloads : createCalls[p] = 0
  /\ entry = "none" /\ bpc = "idle" /\ lpc = "idle"
  /\ \A p \in Payloads : backendCalls[p] = 0

\* C25: a request whose signature header is missing, or whose signature
\* verifyWebhookSignature rejects, is answered 401 in the step that
\* receives it, and nothing is started for it.
C25_UnauthenticatedRejected ==
  (wreq # NoRequest /\ wreq.signature \in {"missing", "invalid"}) =>
    /\ wpc = "done"
    /\ wres.status = 401
    /\ wres.body = IF wreq.signature = "missing"
                   THEN "Missing webhook signature" ELSE "Invalid signature"
    /\ NothingStarted

C25_Witness ==
  /\ wreq = [signature |-> "invalid", recording |-> TRUE, transcript |-> TRUE]
  /\ wpc = "done"
  /\ wres = [status |-> 401, body |-> "Invalid signature"]
  /\ NothingStarted

\* LinearIssueCreator.createIssues has not been invoked
CreateIssuesIdle ==
  /\ entry = "none" /\ bpc = "idle" /\ lpc = "idle"
  /\ \A p \in Payloads : backendCalls[p] = 0

ConfiguredInitialDelay == 1000
ConfiguredMaxDelay == 5000

\* min(initial * 2^(k-1), cap): the delay after the k-th failed attempt
BackoffDelay(k) ==
  IF ConfiguredInitialDelay * 2^(k - 1) <= ConfiguredMaxDelay
  THEN ConfiguredInitialDelay * 2^(k - 1) ELSE ConfiguredMaxDelay

\* C27: retry sleeps between attempts only, with capped exponential
\* backoff: the k-th sleep of a createIssue call lasts
\* min(1000 * 2^(k-1), 5000) ms, so 1000 then 2000; a call that has ended
\* has slept once less often than it called the backend (no sleep after the
\* last attempt, none after a success), and a step sleeps only after a
\* failed attempt that was not the last.
C27_Backoff ==
  /\ [](\A p \in Payloads :
          /\ Len(sleeps[p]) <= ConfiguredAttempts - 1
          /\ \A k \in 1..Len(sleeps[p]) : sleeps[p][k] = BackoffDelay(k)
          /\ \A k \in 1..Len(sleeps[p]) : sleeps[p][k] = <<1000, 2000>>[k]
          /\ CallEnded(p) => Len(sleeps[p]) = backendCalls[p] - 1
          /\ status[p] = "running" =>
               Len(sleeps[p]) \in {backendCalls[p] - 1, backendCalls[p]})
  /\ [][\A p \in Payloads :
          sleeps'[p] # sleeps[p] =>
            /\ lpc = "sleep" /\ cur = p /\ lpc' = "attempt"
            /\ Len(errs[p]) = backendCalls[p]
            /\ backendCalls[p] < ConfiguredAttempts
            /\ Len(sleeps'[p]) = backendCalls[p]]_vars

C27_Witness ==
  \E p \in Payloads :
    /\ status[p] = "returned"
    /\ backendCalls[p] = 3 /\ Len(errs[p]) = 2
    /\ sleeps[p] = <<1000, 2000>>

\* C28: the first backend call of a createIssue call that succeeds is its
\* last one (retry returns its value); when every backend call failed, the
\* error createIssue throws is the error object of the last call as the
\* backend threw it, not wrapped and not replaced, and it is the lastError
\* of retry.
C28_FirstSuccessOrSameError ==
  /\ [](\A p \in Payloads :
          /\ backendCalls[p] - Len(errs[p]) \in {0, 1}
          /\ (status[p] = "returned") => backendCalls[p] = Len(errs[p]) + 1
          /\ (status[p] = "thrown" /\ Len(errs[p]) = backendCalls[p]) =>
               /\ thrownErr[p] = errs[p][Len(errs[p])]
               /\ thrownErr[p] \in BackendErrors
               /\ (cur = p /\ lpc = "thrown") => lastError = thrownErr[p]
               /\ AllFailedRetryable(p) =>
                    /\ Len(errs[p]) = ConfiguredAttempts
                    /\ ~NoRetryableText(thrownErr[p]))
  /\ [][\A p \in Payloads :
          backendCalls[p] > Len(errs[p]) =>
            backendCalls'[p] = backendCalls[p]]_vars

C28_Witness ==
  \E p \in Payloads :
    /\ status[p] = "thrown" /\ lpc = "thrown" /\ cur = p
    /\ AllFailedRetryable(p) /\ Len(errs[p]) = 3
    /\ errs[p][1].class = "reset" /\ errs[p][3].class = "timeout"
    /\ thrownErr[p] = errs[p][3]
    /\ lastError = errs[p][3]

\* C29: when createIssues has returned, every input of the batch has been
\* attempted (its createIssue call has ended), the returned ids are those of
\* the inputs that succeeded, in input order, and when no call threw there
\* are as many ids as inputs.
C29_CompleteBatch ==
  (entry = "createIssues" /\ bpc = "returned") =>
    /\ \A k \in 1..Len(inputs) : CallEnded(inputs[k])
    /\ \A i \in 1..Len(returned), j \in 1..Len(returned) :
         i < j => returned[i].id < returned[j].id
    /\ (\A k \in 1..Len(inputs) : status[inputs[k]] # "thrown") =>
         Len(returned) = Len(inputs)

\* C30: every index listed in approvedIssues or rejectedIssues of a stored
\* record is an index of its linearIssues, and an invocation of
\* approve_issue or reject_issue whose index is outside that range never
\* writes to the store and never calls createIssue.
C30_ValidIndicesOnly ==
  /\ \A r \in Reviews :
       Stored(r) =>
         LET d == kvStore[r].data
         IN /\ \A k \in 1..Len(d.approvedIssues) :
                 Truthy(d.linearIssues, d.approvedIssues[k])
            /\ \A k \in 1..Len(d.rejectedIssues) :
                 Truthy(d.linearIssues, d.rejectedIssues[k])
  /\ \A h \in Handlers :
       (Started(h) /\ action[h] \in {"approve_issue", "reject_issue"}
          /\ ~ValidIndex(idx[h]))
       => /\ "stored" \notin ev[h] /\ pc[h] # "set"
          /\ "createCalled" \notin ev[h]

\* C31: when the lookup of an approve_issue / reject_issue invocation fails
\* because the store cannot be reached (the record is stored, kv.get
\* throws), the invocation calls createIssue not at all, writes nothing to
\* the store, and the text the user receives is not "Review not found or
\* expired".
C31_PersistenceFailureDistinct ==
  [][\A h \in Handlers :
       ( /\ pc[h] = "acked" /\ pc'[h] # "acked"
         /\ useKV /\ Stored(rid[h])
         /\ "found" \notin ev'[h] )
       => /\ createCalls' = createCalls
          /\ kvStore' = kvStore
          /\ outcome'[h] # "NotFound"]_vars

\* the bulk invocation h has created issues (approve_issues) or has told
\* the user of the cancellation (reject_issues)
BulkCompleted(h) ==
  /\ Ended(h)
  /\ \/ action[h] = "approve_issues" /\ issueIds[h] > 0
     \/ action[h] = "reject_issues" /\ outcome[h] = "Cancelled"

\* C32: after a bulk approve that created issues, or a bulk reject that
\* completed, a later bulk invocation on the same review (no per-item
\* action in between) does not find the record and calls createIssues not
\* at all; a bulk reject never calls createIssues.
C32_BulkOnce ==
  /\ \A h \in Handlers :
       action[h] = "reject_issues" => "createCalled" \notin ev[h]
  /\ \A h1 \in Handlers, h2 \in Handlers :
       ( /\ BulkCompleted(h1)
         /\ Successive(h1, h2)
         /\ action[h2] \in {"approve_issues", "reject_issues"}
         /\ rid[h2] = rid[h1]
         /\ OnlyOnReview(h1, h2) )
       => /\ "found" \notin ev[h2]
          /\ "createCalled" \notin ev[h2]

\* no review has been requested and no issue created
NoReviewNoIssue ==
  /\ ~WebhookCalled("requestReview") /\ ~WebhookCalled("createIssues")
  /\ recap = "none"
  /\ \A r \in Reviews : rpc[r] = "idle" /\ slackMessage[r] = <<>> /\ ~Stored(r)
  /\ \A p \in AllPayloads : createCalls[p] = 0
  /\ CreateIssuesIdle

\* C33: a request whose extraction yields no action item is answered 200
\* "No action items found" in the step in which extract settles; a request
\* whose extraction or transformation fails is answered 500; in all three
\* cases no review is requested, nothing is stored and no issue is created.
C33_NothingWithoutItems ==
  /\ witems = 0 =>
       /\ wpc = "done"
       /\ wres = [status |-> 200, body |-> "No action items found"]
       /\ ~WebhookCalled("transformActionItem")
       /\ NoReviewNoIssue
  /\ ( /\ wpc = "done" /\ Len(wcalls) > 0
       /\ wcalls[Len(wcalls)] = "extract" /\ witems = -1 ) =>
       /\ wres = [status |-> 500, body |-> "Failed to extract action items"]
       /\ NoReviewNoIssue
  /\ ( /\ wpc = "done" /\ Len(wcalls) > 0
       /\ wcalls[Len(wcalls)] = "transformActionItem" ) =>
       /\ wres = [status |-> 500, body |-> "Failed to transform action items"]
       /\ NoReviewNoIssue
  /\ wres.status = 500 => NoReviewNoIssue \/ WebhookCalled("requestReview")

C33_Witness ==
  /\ witems = 0 /\ wpc = "done" /\ wres.status = 200
  /\ glog = "failed"
  /\ wcalls = <<"logTranscript", "extract">>
  /\ NoReviewNoIssue

\* C34: verifyWebhookSignature accepts exactly the headers whose version is v1
\* and whose block holds the HMAC of the raw body keyed with the configured
\* secret itself; everything else, an internal error included, is refused.
C34_OnlySecretKey ==
  vout # "none" =>
    ( vout = "true" <=>
        /\ vin.signature.version = "v1"
        /\ vin.signature.hasBlock
        /\ vin.rawBody # NoBody
        /\ ~IsEmptyString(vin.secret)
        /\ Hmac(vin.secret, vin.rawBody) \in receivedSet(vin.signature.block) )

NoDuplicates(arr) ==
  \A j \in 1..Len(arr), k \in 1..Len(arr) : arr[j] = arr[k] => j = k

DisjointLists(a, b) ==
  \A j \in 1..Len(a), k \in 1..Len(b) : a[j] # b[k]

\* C35: whatever the interleaving of approve_issue and reject_issue
\* invocations, the approvedIssues and rejectedIssues of a stored record have
\* no index in common and neither holds an index twice.
C35_DisjointNoDuplicates ==
  \A r \in Reviews :
    Stored(r) =>
      /\ NoDuplicates(kvStore[r].data.approvedIssues)
      /\ NoDuplicates(kvStore[r].data.rejectedIssues)
      /\ DisjointLists(kvStore[r].data.approvedIssues,
                       kvStore[r].data.rejectedIssues)

C35_Witness ==
  \E h1 \in Handlers, h2 \in Handlers :
    /\ action[h1] = "approve_issue" /\ action[h2] = "reject_issue"
    /\ rid[h1] = rid[h2] /\ idx[h1] = idx[h2]
    /\ ~Successive(h1, h2) /\ ~Successive(h2, h1)
    /\ Ended(h1) /\ Ended(h2)
    /\ "stored" \in ev[h1] /\ "stored" \in ev[h2]
    /\ Stored(rid[h1])
    /\ Len(kvStore[rid[h1]].data.approvedIssues)
         + Len(kvStore[rid[h1]].data.rejectedIssues) = 1

\* an approve_issue invocation on item i of review r whose createIssue call
\* has returned an issue id
CreatedFor(h, r, i) ==
  /\ action[h] = "approve_issue" /\ rid[h] = r /\ idx[h] = i
  /\ "created" \in ev[h]

\* C36: whenever a stored record lists index i as approved, a createIssue
\* call for item i of that review has already returned successfully: no
\* item is stored as approved without an issue created for it.
C36_ApprovedImpliesCreated ==
  \A r \in Reviews, i \in IndexInputs :
    ( Stored(r) /\ \E k \in 1..Len(kvStore[r].data.approvedIssues) :
                     kvStore[r].data.approvedIssues[k] = i )
      => /\ i < NumIssues
         /\ createCalls[<<r, i>>] >= 1
         /\ \E h \in Handlers : CreatedFor(h, r, i)

C36_Witness ==
  \E r \in Reviews, h1 \in Handlers, h2 \in Handlers :
    /\ CreatedFor(h1, r, 0) /\ CreatedFor(h2, r, 1)
    /\ Ended(h1) /\ Ended(h2)
    /\ Stored(r)
    /\ kvStore[r].data.approvedIssues = <<0, 1>>

\* an approve_issue h1 and a reject_issue h2 on the same item, both finished
ApproveAndReject(h1, h2) ==
  /\ action[h1] = "approve_issue" /\ action[h2] = "reject_issue"
  /\ rid[h1] = rid[h2] /\ idx[h1] = idx[h2]
  /\ Ended(h1) /\ Ended(h2)

\* C37: after an approve_issue and a reject_issue on the same item have both
\* finished, in any interleaving, a stored record that lists the item as
\* rejected means that createIssue was never called for the item.
C37_RejectedImpliesNoCreate ==
  \A h1 \in Handlers, h2 \in Handlers :
    ( ApproveAndReject(h1, h2) /\ StoredRejected(rid[h1], idx[h1]) )
      => ( Truthy(kvStore[rid[h1]].data.linearIssues, idx[h1])
             => createCalls[<<rid[h1], idx[h1]>>] = 0 )

\* the issue exists in Linear, the approver was told so, and the stored
\* record shows the item as rejected only
C37_CreatedYetRejected ==
  \E h1 \in Handlers, h2 \in Handlers :
    /\ ApproveAndReject(h1, h2)
    /\ {"created", "stored"} \subseteq ev[h1] /\ outcome[h1] = "Success"
    /\ StoredRejected(rid[h1], idx[h1])
    /\ ~StoredApproved(rid[h1], idx[h1])

\* C38: in KV mode, whenever the lookup of an action handler runs for a
\* review whose message has been posted, requestReview has already written
\* the record of that review: no click on a posted message is answered "not
\* found" for want of a record not yet written.
C38_RecordBeforeButtons ==
  [][\A h \in Handlers :
       ( /\ pc[h] = "acked" /\ pc'[h] # "acked"
         /\ useKV /\ "posted" \in rev[rid[h]] )
       => "stored" \in rev[rid[h]]]_vars

\* the click is answered "Review not found or expired" while requestReview
\* is still about to write the record, which it then does
C38_ClickedTooEarly ==
  \E h \in Handlers :
    /\ useKV /\ Ended(h) /\ outcome[h] = "NotFound"
    /\ calls[h] = <<"ack", "kv.get", "respond">>
    /\ doneBefore[h] = {}
    /\ rpc[rid[h]] = "returned"
    /\ {"posted", "stored", "verified"} \subseteq rev[rid[h]]
    /\ Stored(rid[h]) /\ now = 0
    /\ \A g \in Handlers : g # h => pc[g] = "idle"

\* what a finished invocation told the user when no review data was at hand
ToldNoData(h) ==
  IF action[h] \in {"approve_issue", "reject_issue"}
  THEN /\ outcome[h] \in {"NotFound", "Error", "uncaught"}
       /\ "respondFailed" \notin ev[h] => outcome[h] = "NotFound"
  ELSE /\ "errorShown" \in ev[h] \/ outcome[h] \in {"Error", "uncaught"}
       /\ ( /\ "errorShown" \in ev[h]
            /\ \A g \in Handlers \ {h} :
                 \/ pc[g] = "idle" \/ Successive(g, h)
                 \/ action[g] \in {"approve_issue", "reject_issue"} )
            => slackMessage[rid[h]] =
                 createErrorBlocks(IF action[h] = "approve_issues"
                                   THEN "In-memory storage not available"
                                   ELSE "Review not found or expired")

====
